---- MODULE Spec2Model ----
(***************************************************************************)
(* A model of the search view component: the request cache and the state   *)
(* container (mixins.js), the post endpoint (postEndpoint, in index.js)    *)
(* and the search view (search.js).                                        *)
(*                                                                         *)
(* JavaScript strings are sequences of one-character strings, so that      *)
(* split, join and the empty-string test are computed and not assumed.     *)
(* A parameter value is a tagged record: Str(s) or Num(n).                 *)
(***************************************************************************)
EXTENDS Integers, Sequences, FiniteSets, TLC

----------------------------------------------------------------------------
(* Bounds of the model *)

\* get() is not called once the page counter has reached MaxPage
MaxPage == 3
\* no more than MaxFetch cache lookups (requestMixin.fetch calls) in a run
MaxFetch == 2
\* the same two bounds for the run of the example configuration
MaxExamplePage == 5
MaxExampleFetch == 3
\* no more than MaxViewFetch cache lookups in a run of the view
MaxViewFetch == 2
\* the load-more clicks of the example's listing: pages, and cache lookups
MaxLoadPage == 3
MaxLoadFetch == 3
\* the same two bounds for the scroll-triggered loads of the view
MaxScrollPage == 3
MaxScrollFetch == 3

----------------------------------------------------------------------------
(* Values *)

Str(s) == [t |-> "str", v |-> s]
Num(n) == [t |-> "num", v |-> n]

\* typeof v == 'string' && !v.length
IsEmptyString(val) == val.t = "str" /\ val.v = <<>>

\* per_page of the example configuration
PerPage == 12

\* the total of the spec's example
ExampleTotal == 30

\* the totals the server reports in X-WP-TOTAL
Totals == {PerPage, ExampleTotal}

\* Object.assign({}, a, b): b's keys override a's
Assign(a, b) ==
  [k \in (DOMAIN a) \cup (DOMAIN b) |-> IF k \in DOMAIN b THEN b[k] ELSE a[k]]

----------------------------------------------------------------------------
(* State *)

VARIABLES
  listings,        \* the names of the listings (endpoints) that exist
  pathname,        \* [listing -> its endpoint's pathname]
  config,          \* [listing -> construction-time config of its endpoint]
  params,          \* [listing -> the closure variable params]
  page,            \* [listing -> the closure variable page]
  estate,          \* [listing -> endpoint.state]
  requests,        \* [listing -> the requests cache: request -> entry]
  thens,           \* the .then continuations waiting on a fetch promise
  apiCalls,        \* [listing -> [request -> number of apiFetch calls]]
  nLookups,        \* number of requestMixin.fetch calls so far
  finishedEvents,  \* [listing -> number of 'listing-finished' publishes]
  last,            \* what the last operation did (an observation record)
  run,             \* [listing -> observation of its run of get() calls]
  root,            \* [listing -> the responses rendered in its rootEl]
  lopts,           \* [listing -> the listing's options (instance.listings)]
  vstate,          \* the view's state: loading, visible, foundPosts
  input,           \* the value of the search input
  timer,           \* the debounce timer of the input handler
  bursts,          \* number of bursts of input events begun
  searches,        \* number of search() runs
  setHist,         \* the last two setState calls on the view's state
  taxHist,         \* the last 'tax-set' events, while they repeat a toggle
  alls,            \* [search run -> the Promise.all of its listing queries]
  hidden,          \* [listing with a load-more button -> it has is-hidden]
  inited,          \* whether init() has bound the view's handlers
  scrollTimer,     \* the debounce timer of the scroll handler
  options,         \* the listings option given to searchViewFactory
  todo,            \* the names createListing has still to be called with
  warnings,        \* the names createListing has warned about
  thrown           \* whether construction ended with an exception

epVars == <<listings, pathname, config, params, page, estate, requests, thens>>
obsVars == <<apiCalls, nLookups, finishedEvents, last, run>>
viewVars ==
  <<root, lopts, vstate, input, timer, bursts, searches, setHist, taxHist,
    alls>>
pageVars == <<hidden, inited, scrollTimer>>
ctorVars == <<options, todo, warnings, thrown>>

vars == <<epVars, obsVars, viewVars, pageVars, ctorVars>>

----------------------------------------------------------------------------
(* The state container: stateMixin *)

\* deep-equal on the plain records of booleans and integers used as states
equal(a, b) == a = b

\* (mutant) 'state-set' is published by every call
MutSetStateAlwaysPublishes(st, data) ==
  [state |-> Assign(st, data), published |-> TRUE]

\* setState(data): the merged state replaces the state, and 'state-set' is
\* published, only when the merged state differs from the current one
setState(st, data) ==
  LET newState == Assign(st, data)
  IN  IF ~equal(newState, st)
        THEN [state |-> newState, published |-> TRUE]
        ELSE [state |-> st, published |-> FALSE]

----------------------------------------------------------------------------
(* The request cache: requestMixin *)

Pending == [status |-> "pending", hasTotal |-> FALSE, total |-> 0]

\* (mutant) the cache is never consulted
MutCacheAlwaysMiss(rq, request) == TRUE

\* (mutant) the entry of a request whose network call failed counts as
\* missing, so the request is fetched again
MutCacheMissWhenRejected(rq, request) ==
  request \notin DOMAIN rq \/ rq[request].status = "rejected"

\* if(!requests[request]): no entry under this request string yet
CacheMiss(rq, request) == request \notin DOMAIN rq

\* fetch(request, method): apiFetch is called, and its promise stored, on a
\* miss only; [requests |-> the cache afterwards, api |-> apiFetch was called]
fetch(rq, request) ==
  IF CacheMiss(rq, request)
    THEN [requests |-> Assign(rq, request :> Pending), api |-> TRUE]
    ELSE [requests |-> rq, api |-> FALSE]

----------------------------------------------------------------------------
(* The post endpoint: postEndpointFactory *)

InitialState == [isFinished |-> FALSE, foundPosts |-> 0]

getParams(l) == params[l]

\* getParam(key): the value, or undefined (here: the empty sequence of values)
HasParam(pr, key) == key \in DOMAIN pr

getPage(l) == page[l]

\* pathname + '?' + serializeObject({...params, page: page})
Request(l, pr, pg) == [path |-> pathname[l], query |-> pr, page |-> pg]

\* The outcome of a call of get() or setQuery(): the closure variables, the
\* state and the cache after the call, what the call returned ("promise",
\* "undefined", or "resolved" for an already-resolved promise), and whether
\* it looked the request up in the cache and called apiFetch
Outcome(pg, pr, st, pub, rq, ret, lookup, api, request) ==
  [page |-> pg, params |-> pr, state |-> st, published |-> pub,
   requests |-> rq, ret |-> ret, lookup |-> lookup, api |-> api,
   request |-> request]

\* (mutant) get() skips a page
MutGetSkipsPage(l, pg, pr, st, rq) ==
  LET request == Request(l, pr, pg + 2)
      f == fetch(rq, request)
  IN  IF st.isFinished
        THEN Outcome(pg + 2, pr, st, FALSE, rq, "undefined", FALSE, FALSE,
                     request)
        ELSE Outcome(pg + 2, pr, st, FALSE, f.requests, "promise", TRUE,
                     f.api, request)

\* (mutant) get() fetches also when the endpoint is finished
MutGetIgnoresFinished(l, pg, pr, st, rq) ==
  LET request == Request(l, pr, pg + 1)
      f == fetch(rq, request)
  IN  Outcome(pg + 1, pr, st, FALSE, f.requests, "promise", TRUE, f.api,
              request)

\* get(), as a function of the closure variables page and params, the state
\* and the cache: the page counter is incremented before the finished test
get(l, pg, pr, st, rq) ==
  LET newPage == pg + 1
      request == Request(l, pr, newPage)
  IN  IF st.isFinished
        THEN Outcome(newPage, pr, st, FALSE, rq, "undefined", FALSE, FALSE,
                     request)
        ELSE LET f == fetch(rq, request)
             IN  Outcome(newPage, pr, st, FALSE, f.requests, "promise", TRUE,
                         f.api, request)

\* (mutant) no key is deleted
MutDeleteNothing(pr) == pr

\* mapObject(params, (k, v) => { if(typeof v == 'string' && !v.length)
\* delete params[k] })
DeleteEmpty(pr) == [k \in {j \in DOMAIN pr : ~IsEmptyString(pr[j])} |-> pr[k]]

\* (mutant) the page counter is taken to start at 0 for the first page
MutFinishedOnePageEarly(pg, pr, total) ==
  HasParam(pr, "per_page") /\ pr["per_page"].t = "num"
  /\ (pg + 1) * pr["per_page"].v >= total

\* page * this.getParam('per_page') >= parseInt(total); a missing or
\* non-numeric per_page makes the product NaN and the comparison false
IsFinishedAt(pg, pr, total) ==
  IF ~HasParam(pr, "per_page") THEN FALSE
  ELSE LET v == pr["per_page"]
       IN  IF v.t = "num" THEN pg * v.v >= total
           ELSE IF v.v = <<>> THEN 0 >= total
           ELSE FALSE

\* (mutant) a missing header is read as a total of 0
MutOnResponseMissingTotalIsZero(pg, pr, st, entry) ==
  LET total == IF entry.hasTotal THEN entry.total ELSE 0
      isFinished == IsFinishedAt(pg, pr, total)
      s == setState(st, [foundPosts |-> total, isFinished |-> isFinished])
  IN  [state |-> s.state, published |-> s.published, finished |-> isFinished]

\* the then-callback of get(): reads the header, and the closure variable
\* page and the parameter per_page as they are when the response is handled
onResponse(pg, pr, st, entry) ==
  IF ~entry.hasTotal
    THEN [state |-> st, published |-> FALSE, finished |-> FALSE]
    ELSE LET isFinished == IsFinishedAt(pg, pr, entry.total)
             s == setState(st, [foundPosts |-> entry.total,
                                isFinished |-> isFinished])
         IN  [state |-> s.state, published |-> s.published,
              finished |-> isFinished]

\* (mutant) setQuery() does not reset the finished flag
MutSetQueryKeepsFinished(l, query, runQuery, pr0, st0, rq) ==
  LET pr == DeleteEmpty(Assign(pr0, query))
      g == get(l, 0, pr, st0, rq)
  IN  IF runQuery
        THEN g
        ELSE Outcome(0, pr, st0, FALSE, rq, "resolved", FALSE, FALSE,
                     g.request)

\* (mutant) setQuery() runs the query whatever runQuery is
MutSetQueryAlwaysRuns(l, query, runQuery, pr0, st0, rq) ==
  LET s == setState(st0, [isFinished |-> FALSE])
      pr == DeleteEmpty(Assign(pr0, query))
      g == get(l, 0, pr, s.state, rq)
  IN  [g EXCEPT !.published = s.published]

\* setQuery(query, runQuery), as a function like get()
setQuery(l, query, runQuery, pr0, st0, rq) ==
  LET s == setState(st0, [isFinished |-> FALSE])
      pr == DeleteEmpty(Assign(pr0, query))
      g == get(l, 0, pr, s.state, rq)
  IN  IF runQuery
        THEN [g EXCEPT !.published = s.published]
        ELSE Outcome(0, pr, s.state, s.published, rq, "resolved", FALSE, FALSE,
                     g.request)

\* (mutant) clearQuery() leaves the parameters as they are
MutClearQueryKeepsParams(l) == params[l]

\* clearQuery(): params = Object.assign({}, config)
clearQuery(l) == config[l]

----------------------------------------------------------------------------
(* Operations on an endpoint *)

\* a continuation registered with .then on the promise of a cache lookup:
\* who called (caller.by) and, for a search() run, which one (caller.run);
\* phase "fetch" until the then-callback of get() has run, then "json" until
\* the caller's own then-callback has
Then(id, l, request, caller) ==
  [id |-> id, l |-> l, request |-> request, caller |-> caller,
   phase |-> "fetch"]

\* the caller of an endpoint used directly: nothing is chained on its promise
Api == [by |-> "api", run |-> 0]

Incr(f, k) == IF k \in DOMAIN f THEN [f EXCEPT ![k] = @ + 1] ELSE f @@ (k :> 1)

\* the observation of an operation: calls are the endpoint calls it made
Obs(op, calls) == [op |-> op, calls |-> calls]

\* the observation of a step that calls nothing of an endpoint and handles
\* no response: an event of the network, or a handler of the view
NoCalls == Obs("none", <<>>)

\* one endpoint call, as observed: its argument, what it returned, whether
\* it looked up the cache, whether it called apiFetch, and the page it asked
\* for when it did
Call(fn, l, arg, r) ==
  [fn |-> fn, l |-> l, arg |-> arg, ret |-> r.ret, lookup |-> r.lookup,
   api |-> r.api, requestPage |-> IF r.lookup THEN r.request.page ELSE 0]

\* the run of an endpoint so far is sequential when it consists of get()
\* calls only, each made after the response of the one before was handled,
\* and every response carried the total ExampleTotal
NoRun == [sequential |-> TRUE, handled |-> 0]
Broken == [sequential |-> FALSE, handled |-> 0]

\* (mutant) chaining on the promise of a new request drops the callbacks
\* that wait on earlier requests of the same endpoints
MutChainCancelsEarlier(th, new) ==
  {c \in th : \A d \in new : d.l # c.l} \cup new

\* promise.then(...): the callbacks in new are added to those waiting;
\* nothing in get(), setQuery() or the view removes one that waits
Chain(th, new) == th \cup new

\* the 'state-set' subscription of bindLoadMore, when the endpoint of
\* listing l has set its state to st: toggle(isFinished) on the button's
\* is-hidden class. Nothing is subscribed before init()
toggle(hd, l, published, st) ==
  IF published /\ inited /\ l \in DOMAIN hd
    THEN [hd EXCEPT ![l] = st.isFinished]
    ELSE hd

\* the effect of the outcome r of a get() or setQuery() call on endpoint l
Apply(l, r, caller) ==
  /\ page' = [page EXCEPT ![l] = r.page]
  /\ params' = [params EXCEPT ![l] = r.params]
  /\ estate' = [estate EXCEPT ![l] = r.state]
  /\ requests' = [requests EXCEPT ![l] = r.requests]
  /\ thens' = IF r.lookup
                THEN Chain(thens, {Then(nLookups + 1, l, r.request, caller)})
                ELSE thens
  /\ nLookups' = IF r.lookup THEN nLookups + 1 ELSE nLookups
  /\ apiCalls' = IF r.api THEN [apiCalls EXCEPT ![l] = Incr(@, r.request)]
                          ELSE apiCalls
  /\ hidden' = toggle(hidden, l, r.published, r.state)

InFlight(l) == \E c \in thens : c.l = l

\* the bounds on the calls of a run: a call of get() is within them while the
\* page counter is below maxPage and, when it would look up the cache, while
\* fewer than maxFetch lookups were made
GetWithin(l, maxPage, maxFetch) ==
  /\ page[l] < maxPage
  /\ estate[l].isFinished \/ nLookups < maxFetch

SetQueryWithin(runQuery, maxFetch) == runQuery => nLookups < maxFetch

\* endpoint.get(), called directly
Get(l) ==
  /\ l \in listings
  /\ LET r == get(l, page[l], params[l], estate[l], requests[l])
     IN  /\ Apply(l, r, Api)
         /\ last' = Obs("get", <<Call("get", l, <<>>, r)>>)
  /\ run' = [run EXCEPT ![l] = IF InFlight(l) THEN Broken ELSE @]
  /\ UNCHANGED <<listings, pathname, config, finishedEvents>>
  /\ UNCHANGED <<viewVars, ctorVars>>
  /\ UNCHANGED <<inited, scrollTimer>>

\* endpoint.setQuery(query, runQuery), called directly
SetQuery(l, query, runQuery) ==
  /\ l \in listings
  /\ LET r == setQuery(l, query, runQuery, params[l], estate[l], requests[l])
     IN  /\ Apply(l, r, Api)
         /\ last' = Obs("setQuery",
                        <<Call("setQuery", l, <<runQuery>>, r)>>)
  /\ run' = [run EXCEPT ![l] = Broken]
  /\ UNCHANGED <<listings, pathname, config, finishedEvents>>
  /\ UNCHANGED <<viewVars, ctorVars>>
  /\ UNCHANGED <<inited, scrollTimer>>

\* endpoint.clearQuery()
ClearQuery(l) ==
  /\ l \in listings
  /\ params[l] # config[l]
  /\ params' = [params EXCEPT ![l] = clearQuery(l)]
  /\ last' = Obs("clearQuery", <<>>)
  /\ run' = [run EXCEPT ![l] = Broken]
  /\ UNCHANGED <<listings, pathname, config, page, estate, requests, thens>>
  /\ UNCHANGED <<apiCalls, nLookups, finishedEvents>>
  /\ UNCHANGED <<viewVars, ctorVars>>
  /\ UNCHANGED pageVars

----------------------------------------------------------------------------
(* The network *)

Headers ==
  {[hasTotal |-> FALSE, total |-> 0]} \cup
  {[hasTotal |-> TRUE, total |-> t] : t \in Totals}

\* the fetch of apiFetch resolves with a response
Resolve(l, request, h) ==
  /\ l \in listings
  /\ request \in DOMAIN requests[l]
  /\ requests[l][request].status = "pending"
  /\ requests' = [requests EXCEPT ![l][request] =
                    [status |-> "resolved", hasTotal |-> h.hasTotal,
                     total |-> h.total]]
  /\ last' = NoCalls
  /\ UNCHANGED <<listings, pathname, config, params, page, estate, thens>>
  /\ UNCHANGED <<apiCalls, nLookups, finishedEvents, run>>
  /\ UNCHANGED <<viewVars, ctorVars>>
  /\ UNCHANGED pageVars

\* the fetch of apiFetch is rejected
Reject(l, request) ==
  /\ l \in listings
  /\ request \in DOMAIN requests[l]
  /\ requests[l][request].status = "pending"
  /\ requests' = [requests EXCEPT ![l][request].status = "rejected"]
  /\ last' = NoCalls
  /\ UNCHANGED <<listings, pathname, config, params, page, estate, thens>>
  /\ UNCHANGED <<apiCalls, nLookups, finishedEvents, run>>
  /\ UNCHANGED <<viewVars, ctorVars>>
  /\ UNCHANGED pageVars

\* the then-callback of get() runs on the response of continuation c; the
\* promise it returns (res.json()) is what the caller's then-callback waits on
Respond(c) ==
  /\ c \in thens
  /\ c.phase = "fetch"
  /\ requests[c.l][c.request].status = "resolved"
  /\ LET entry == requests[c.l][c.request]
         h == onResponse(page[c.l], params[c.l], estate[c.l], entry)
     IN  /\ estate' = [estate EXCEPT ![c.l] = h.state]
         /\ finishedEvents' = [finishedEvents EXCEPT ![c.l] =
                                 IF h.finished THEN @ + 1 ELSE @]
         /\ run' = [run EXCEPT ![c.l] =
                      IF @.sequential /\ entry.hasTotal
                         /\ entry.total = ExampleTotal
                        THEN [@ EXCEPT !.handled = @ + 1]
                        ELSE Broken]
         /\ last' = Obs("response", <<>>) @@
                    [l |-> c.l, published |-> h.published,
                     finished |-> h.finished]
         /\ hidden' = toggle(hidden, c.l, h.published, h.state)
  /\ thens' = IF c.caller.by = "api"
                THEN thens \ {c}
                ELSE (thens \ {c}) \cup {[c EXCEPT !.phase = "json"]}
  /\ UNCHANGED <<listings, pathname, config, params, page, requests>>
  /\ UNCHANGED <<apiCalls, nLookups>>
  /\ UNCHANGED <<viewVars, ctorVars>>
  /\ UNCHANGED <<inited, scrollTimer>>

\* (mutant) a rejection is handled by clearing the view's loading flag
MutFailClearsLoading(c) ==
  /\ c \in thens
  /\ requests[c.l][c.request].status = "rejected"
  /\ thens' = thens \ {c}
  /\ run' = [run EXCEPT ![c.l] = Broken]
  /\ alls' = [g \in DOMAIN alls \ {c.caller.run} |-> alls[g]]
  /\ last' = NoCalls
  /\ vstate' = setState(vstate, [loading |-> FALSE]).state
  /\ UNCHANGED <<listings, pathname, config, params, page, estate, requests>>
  /\ UNCHANGED <<apiCalls, nLookups, finishedEvents>>
  /\ UNCHANGED <<root, lopts, input, timer, bursts, searches, setHist,
                 taxHist, ctorVars>>
  /\ UNCHANGED pageVars

\* the promise of continuation c is rejected: nothing handles the rejection,
\* and the Promise.all of a search() run it belongs to is rejected with it
Fail(c) ==
  /\ c \in thens
  /\ requests[c.l][c.request].status = "rejected"
  /\ thens' = thens \ {c}
  /\ run' = [run EXCEPT ![c.l] = Broken]
  /\ alls' = [g \in DOMAIN alls \ {c.caller.run} |-> alls[g]]
  /\ last' = NoCalls
  /\ UNCHANGED <<listings, pathname, config, params, page, estate, requests>>
  /\ UNCHANGED <<apiCalls, nLookups, finishedEvents>>
  /\ UNCHANGED <<root, lopts, vstate, input, timer, bursts, searches, setHist,
                 taxHist, ctorVars>>
  /\ UNCHANGED pageVars

----------------------------------------------------------------------------
(* Strings *)

Comma == ","

\* s.split(sep)
RECURSIVE Split(_, _)
Split(s, sep) ==
  IF \E i \in 1..Len(s) : s[i] = sep
    THEN LET i == CHOOSE n \in 1..Len(s) :
                    s[n] = sep /\ \A j \in 1..(n - 1) : s[j] # sep
         IN  <<SubSeq(s, 1, i - 1)>> \o Split(SubSeq(s, i + 1, Len(s)), sep)
    ELSE <<s>>

\* parts.join(sep)
RECURSIVE Join(_, _)
Join(parts, sep) ==
  IF parts = <<>> THEN <<>>
  ELSE IF Len(parts) = 1 THEN parts[1]
  ELSE parts[1] \o <<sep>> \o Join(Tail(parts), sep)

\* parts.filter(v => v)
FilterEmpty(parts) == SelectSeq(parts, LAMBDA v : v # <<>>)

inArray(x, arr) == \E i \in DOMAIN arr : arr[i] = x

----------------------------------------------------------------------------
(* The search view *)

\* the order of the keys of the listings option
ListingOrder == <<"posts", "projects">>

Ordered(L) == SelectSeq(ListingOrder, LAMBDA l : l \in L)

Pos(l) == CHOOSE i \in 1..Len(ListingOrder) : ListingOrder[i] = l

\* getTotalFoundPosts(): the sum of the endpoints' foundPosts
RECURSIVE SumFound(_, _)
SumFound(order, est) ==
  IF order = <<>> THEN 0
  ELSE est[Head(order)].foundPosts + SumFound(Tail(order), est)

\* (mutant) the total is the foundPosts of the first listing
MutTotalOfFirstListing(est) ==
  IF DOMAIN est = {} THEN 0 ELSE est[Head(Ordered(DOMAIN est))].foundPosts

\* getTotalFoundPosts()
getTotalFoundPosts(est) == SumFound(Ordered(DOMAIN est), est)

\* setResultsVariables()
setResultsVariables(vs, est) ==
  setState(vs, [loading |-> FALSE, foundPosts |-> getTotalFoundPosts(est)])

\* debounce(fn, wait): a call arms (or re-arms) the timer, and fn runs when
\* the timer runs out, wait after the last call
debounceCall(t) == "armed"
debounceRunsOut(t) == t = "armed"

\* (mutant) every listing is queried with the default search parameter
MutSearchDefaultParam(l, value) == [search |-> Str(value)]

\* the query search() gives listing l: query[listing.searchParam] = input.value
searchQuery(l, value) == (lopts[l].searchParam :> Str(value))

\* the effect of the outcomes r[l] of the setQuery() calls on the endpoints L
ApplyAll(L, r, caller) ==
  LET looked == {l \in L : r[l].lookup}
      rank(l) == Cardinality({x \in looked : Pos(x) <= Pos(l)})
  IN  /\ page' = [l \in listings |-> IF l \in L THEN r[l].page ELSE page[l]]
      /\ params' = [l \in listings |->
                      IF l \in L THEN r[l].params ELSE params[l]]
      /\ estate' = [l \in listings |->
                      IF l \in L THEN r[l].state ELSE estate[l]]
      /\ requests' = [l \in listings |->
                        IF l \in L THEN r[l].requests ELSE requests[l]]
      /\ thens' = Chain(thens,
                         {Then(nLookups + rank(l), l, r[l].request, caller)
                          : l \in looked})
      /\ nLookups' = nLookups + Cardinality(looked)
      /\ apiCalls' = [l \in listings |->
                        IF l \in L /\ r[l].api
                          THEN Incr(apiCalls[l], r[l].request)
                          ELSE apiCalls[l]]
      /\ hidden' = [l \in DOMAIN hidden |->
                      IF l \in L
                        THEN toggle(hidden, l, r[l].published, r[l].state)[l]
                        ELSE hidden[l]]

\* (mutant) an input event sets the loading flag only
MutInputStateLoadingOnly(v) == [loading |-> v # <<>>]

\* the data the first 'input' listener gives setState, for input.value = v:
\* loading and visible are !!input.value.length
InputState(v) == [loading |-> v # <<>>, visible |-> v # <<>>]

\* the 'input' listeners of bindInput: the state is set at once, and the
\* debounced search is (re)armed
Input(v) ==
  /\ inited
  /\ input' = v
  /\ vstate' = setState(vstate, InputState(v)).state
  /\ timer' = debounceCall(timer)
  /\ bursts' = IF timer = "idle" THEN bursts + 1 ELSE bursts
  /\ last' = Obs("input", <<>>)
  /\ UNCHANGED <<epVars, apiCalls, nLookups, finishedEvents, run>>
  /\ UNCHANGED <<root, lopts, searches, setHist, taxHist, alls, ctorVars>>
  /\ UNCHANGED pageVars

\* the debounce timer runs out: search(). Each listing gets setListingQuery
\* with its search parameter set to input.value, and the promises are
\* gathered in a Promise.all
Search ==
  /\ debounceRunsOut(timer)
  /\ nLookups + Cardinality(listings) <= MaxViewFetch
  /\ LET r == [l \in listings |->
                 setQuery(l, searchQuery(l, input), TRUE, params[l],
                          estate[l], requests[l])]
         order == Ordered(listings)
     IN  /\ ApplyAll(listings, r, [by |-> "search", run |-> searches + 1])
         /\ last' = Obs("search",
                        [i \in 1..Len(order) |->
                           Call("setQuery", order[i],
                                <<searchQuery(order[i], input), TRUE>>,
                                r[order[i]])])
  /\ vstate' = IF listings = {} THEN vstate
               ELSE setState(vstate, [loading |-> TRUE]).state
  /\ alls' = alls @@ ((searches + 1) :> [waiting |-> listings])
  /\ searches' = searches + 1
  /\ timer' = "idle"
  /\ taxHist' = <<>>
  /\ run' = [l \in listings |-> Broken]
  /\ UNCHANGED <<listings, pathname, config, finishedEvents>>
  /\ UNCHANGED <<root, lopts, input, bursts, setHist, ctorVars>>
  /\ UNCHANGED <<inited, scrollTimer>>

\* (listing.endpoint.getParam(tax) || '').split(',').filter(v => v)
currentQuery(l, tax) ==
  IF HasParam(params[l], tax)
    THEN FilterEmpty(Split(params[l][tax].v, Comma))
    ELSE FilterEmpty(Split(<<>>, Comma))

\* (mutant) a slug that is active is kept and added once more
MutNextQueryAlwaysAdds(current, slug, shouldToggle) ==
  IF shouldToggle THEN current \o <<slug>> ELSE <<slug>>

\* the slugs of the next query of the 'tax-set' handler
nextQuery(current, slug, shouldToggle) ==
  IF shouldToggle
    THEN IF inArray(slug, current)
           THEN SelectSeq(current, LAMBDA v : v # slug)
           ELSE current \o <<slug>>
    ELSE <<slug>>

\* the value of parameter tax of endpoint l, or nothing
ParamNow(l, tax) ==
  IF HasParam(params[l], tax) THEN <<params[l][tax]>> ELSE <<>>

Last2(h) == IF Len(h) > 2 THEN Tail(h) ELSE h

\* the 'tax-set' events handled last, as far as they are consecutive events
\* with shouldToggle = true for the same taxonomy, slug and listing
SameToggle(e, f) ==
  /\ e.shouldToggle /\ f.shouldToggle
  /\ e.tax = f.tax /\ e.slug = f.slug /\ e.l = f.l

Streak(h, e) ==
  IF ~e.shouldToggle THEN <<>>
  ELSE IF h # <<>> /\ SameToggle(h[Len(h)], e) THEN Last2(Append(h, e))
  ELSE <<e>>

\* the 'tax-set' handler of bindTaxToggles
\* (mutant) the handler never takes the next query for the current one
MutSameQueryNever(current, next) == FALSE

\* currentQuery.join() == nextQuery.join()
sameQuery(current, next) == Join(current, Comma) = Join(next, Comma)

TaxSet(tax, slug, l, shouldToggle) ==
  /\ inited
  /\ l \in listings
  /\ LET current == currentQuery(l, tax)
         next == nextQuery(current, slug, shouldToggle)
         query == (tax :> Str(Join(next, Comma)))
         event == [tax |-> tax, slug |-> slug, l |-> l,
                   shouldToggle |-> shouldToggle,
                   before |-> ParamNow(l, tax)]
     IN  IF sameQuery(current, next)
           THEN /\ last' = Obs("tax-set", <<>>) @@ [event |-> event]
                /\ UNCHANGED <<epVars, apiCalls, nLookups, vstate, hidden>>
           ELSE /\ nLookups < MaxViewFetch
                /\ vstate' = setState(vstate, [loading |-> TRUE]).state
                /\ LET r == setQuery(l, query, TRUE, params[l], estate[l],
                                     requests[l])
                   IN  /\ Apply(l, r, [by |-> "tax", run |-> 0])
                       /\ last' = Obs("tax-set",
                                      <<Call("setQuery", l, <<query, TRUE>>,
                                             r)>>) @@ [event |-> event]
                /\ UNCHANGED <<listings, pathname, config>>
  /\ taxHist' = Streak(taxHist,
                   [tax |-> tax, slug |-> slug, l |-> l,
                    shouldToggle |-> shouldToggle, before |-> ParamNow(l, tax)])
  /\ run' = [run EXCEPT ![l] = Broken]
  /\ UNCHANGED <<finishedEvents>>
  /\ UNCHANGED <<root, lopts, input, timer, bursts, searches, setHist, alls,
                 ctorVars>>
  /\ UNCHANGED <<inited, scrollTimer>>

\* clearListing(listing): the root is emptied when the endpoint's page, at
\* the time of the call, is 1
clearListing(l, rt) == IF getPage(l) = 1 THEN <<>> ELSE rt

\* populate(listing, posts): clearListing(), then the elements compiled from
\* the posts are appended to the root; the posts of a response are named by
\* its request
populate(l, rt, posts) == Append(clearListing(l, rt), posts)

\* the then-callback of setListingQuery runs for continuation c: populate(),
\* then setResultsVariables(); its promise is one of a search() run's
Deliver(c) ==
  /\ c \in thens
  /\ c.phase = "json"
  /\ c.caller.by \in {"search", "tax"}
  /\ root' = [root EXCEPT ![c.l] = populate(c.l, @, c.request)]
  /\ vstate' = setResultsVariables(vstate, estate).state
  /\ thens' = thens \ {c}
  /\ alls' = IF c.caller.run \in DOMAIN alls
               THEN [alls EXCEPT ![c.caller.run].waiting = @ \ {c.l}]
               ELSE alls
  /\ last' = NoCalls
  /\ UNCHANGED <<listings, pathname, config, params, page, estate, requests>>
  /\ UNCHANGED <<apiCalls, nLookups, finishedEvents, run>>
  /\ UNCHANGED <<lopts, input, timer, bursts, searches, setHist, taxHist,
                 ctorVars>>
  /\ UNCHANGED pageVars

\* the then-callback of the Promise.all of search() run g: all of its
\* promises are fulfilled
AllDone(g) ==
  /\ g \in DOMAIN alls
  /\ alls[g].waiting = {}
  /\ vstate' = setResultsVariables(vstate, estate).state
  /\ alls' = [x \in DOMAIN alls \ {g} |-> alls[x]]
  /\ last' = NoCalls
  /\ UNCHANGED <<epVars, apiCalls, nLookups, finishedEvents, run>>
  /\ UNCHANGED <<root, lopts, input, timer, bursts, searches, setHist,
                 taxHist, ctorVars>>
  /\ UNCHANGED pageVars

\* a click on the load-more button of listing l: setState({loading: true}),
\* then endpoint.get().then(...). On a finished endpoint get() returns
\* undefined and the handler ends there, with a TypeError. The observation
\* records whether the button carried is-hidden when it was clicked
LoadMore(l) ==
  /\ inited
  /\ l \in DOMAIN hidden
  /\ vstate' = setState(vstate, [loading |-> TRUE]).state
  /\ LET r == get(l, page[l], params[l], estate[l], requests[l])
     IN  /\ Apply(l, r, [by |-> "loadMore", run |-> 0])
         /\ last' = Obs("load-more", <<Call("get", l, <<>>, r)>>) @@
                    [hidden |-> hidden[l]]
  /\ run' = [run EXCEPT ![l] = Broken]
  /\ UNCHANGED <<listings, pathname, config, finishedEvents>>
  /\ UNCHANGED <<root, lopts, input, timer, bursts, searches, setHist,
                 taxHist, alls, ctorVars>>
  /\ UNCHANGED <<inited, scrollTimer>>

\* the then-callback of the load-more click runs for continuation c:
\* setState({loading: false}), then populate()
Loaded(c) ==
  /\ c \in thens
  /\ c.phase = "json"
  /\ c.caller.by = "loadMore"
  /\ vstate' = setState(vstate, [loading |-> FALSE]).state
  /\ root' = [root EXCEPT ![c.l] = populate(c.l, @, c.request)]
  /\ thens' = thens \ {c}
  /\ last' = NoCalls
  /\ UNCHANGED <<listings, pathname, config, params, page, estate, requests>>
  /\ UNCHANGED <<apiCalls, nLookups, finishedEvents, run>>
  /\ UNCHANGED <<lopts, input, timer, bursts, searches, setHist, taxHist,
                 alls, ctorVars>>
  /\ UNCHANGED pageVars

\* debounce(fn, wait, true): fn runs at once on a call made while the timer
\* is idle, and every call arms (or re-arms) the timer
leadingRuns(t) == t = "idle"
leadingCall(t) == "armed"

\* (mutant) the callback runs also while the view is hidden
MutCheckBottomIgnoresVisible(visible, bottom) == bottom

\* checkBottom(cb): whether cb is called, given this.state.visible and the
\* value of elScrolledToBottom(scrollWrapper)
checkBottom(visible, bottom) == visible /\ bottom

\* the listings the debounced get of bindScroll calls endpoint.get() on:
\* those with scroll whose endpoint's state is not finished
scrollGets == {l \in listings : lopts[l].scroll /\ ~estate[l].isFinished}

\* the bounds on a scroll event: every get() it would make is within them
ScrollWithin(maxPage, maxFetch) ==
  /\ \A l \in scrollGets : page[l] < maxPage
  /\ nLookups + Cardinality(scrollGets) <= maxFetch

\* the view publishes 'scroll' (wheel, touchmove or the down key), with
\* bottom the value of elScrolledToBottom(scrollWrapper): checkBottom(get)
\* for the listings with scroll, get being debounced on its leading edge
Scroll(bottom) ==
  /\ inited
  /\ \E l \in listings : lopts[l].scroll
  /\ LET called == checkBottom(vstate.visible, bottom)
         L == IF called /\ leadingRuns(scrollTimer) THEN scrollGets ELSE {}
         r == [l \in L |->
                 get(l, page[l], params[l], estate[l], requests[l])]
         order == Ordered(L)
     IN  /\ scrollTimer' = IF called THEN leadingCall(scrollTimer)
                           ELSE scrollTimer
         /\ ApplyAll(L, r, [by |-> "scroll", run |-> 0])
         /\ vstate' = IF L = {} THEN vstate
                      ELSE setState(vstate, [loading |-> TRUE]).state
         /\ run' = [l \in listings |-> IF l \in L THEN Broken ELSE run[l]]
         /\ last' = Obs("scroll",
                        [i \in 1..Len(order) |->
                           Call("get", order[i], <<>>, r[order[i]])]) @@
                    [visible |-> vstate.visible, bottom |-> bottom]
  /\ UNCHANGED <<listings, pathname, config, finishedEvents>>
  /\ UNCHANGED <<root, lopts, input, timer, bursts, searches, setHist,
                 taxHist, alls, ctorVars>>
  /\ UNCHANGED inited

\* the timer of the debounced get of bindScroll runs out
ScrollWindowEnds ==
  /\ scrollTimer = "armed"
  /\ scrollTimer' = "idle"
  /\ last' = NoCalls
  /\ UNCHANGED <<epVars, apiCalls, nLookups, finishedEvents, run>>
  /\ UNCHANGED <<viewVars, ctorVars, hidden, inited>>

\* the then-callback of the scroll handler's endpoint.get() runs for
\* continuation c: setState({loading: false}), then populate()
ScrollLoaded(c) ==
  /\ c \in thens
  /\ c.phase = "json"
  /\ c.caller.by = "scroll"
  /\ vstate' = setState(vstate, [loading |-> FALSE]).state
  /\ root' = [root EXCEPT ![c.l] = populate(c.l, @, c.request)]
  /\ thens' = thens \ {c}
  /\ last' = NoCalls
  /\ UNCHANGED <<listings, pathname, config, params, page, estate, requests>>
  /\ UNCHANGED <<apiCalls, nLookups, finishedEvents, run>>
  /\ UNCHANGED <<lopts, input, timer, bursts, searches, setHist, taxHist,
                 alls, ctorVars>>
  /\ UNCHANGED pageVars

\* init(): the handlers of the view are bound; bindLoadMore subscribes each
\* button's toggle to its endpoint's 'state-set', and calls it with nothing
init ==
  /\ ~inited
  /\ inited' = TRUE
  /\ last' = Obs("init()", <<>>)
  /\ UNCHANGED <<epVars, apiCalls, nLookups, finishedEvents, run>>
  /\ UNCHANGED <<viewVars, ctorVars, hidden, scrollTimer>>

----------------------------------------------------------------------------
(* One endpoint, used through its own interface *)

\* all the mappings that give some of the keys of vals a value of vals[key]
PartialMaps(vals) ==
  UNION {{f \in [S -> UNION {vals[k] : k \in S}] : \A k \in S : f[k] \in vals[k]}
         : S \in SUBSET DOMAIN vals}

\* the parameter values of the queries given to setQuery
EpValues == [s |-> {Str(<<>>), Str(<<"d">>)}]

\* the example's configuration, one with an empty-string value, and one
\* without per_page
EpConfigs ==
  {[per_page |-> Num(PerPage)],
   [per_page |-> Num(PerPage), s |-> Str(<<>>)],
   [s |-> Str(<<"d">>)]}
EpQueries == PartialMaps(EpValues)

IdleView ==
  /\ hidden = <<>>
  /\ inited = FALSE
  /\ scrollTimer = "idle"
  /\ root = <<>>
  /\ lopts = <<>>
  /\ vstate = [loading |-> FALSE, visible |-> FALSE, foundPosts |-> 0]
  /\ input = <<>>
  /\ timer = "idle"
  /\ bursts = 0
  /\ searches = 0
  /\ setHist = <<>>
  /\ taxHist = <<>>
  /\ alls = <<>>

NoCtor ==
  /\ options = <<>>
  /\ todo = <<>>
  /\ warnings = {}
  /\ thrown = FALSE

NoObs ==
  /\ apiCalls = [l \in listings |-> <<>>]
  /\ nLookups = 0
  /\ finishedEvents = [l \in listings |-> 0]
  /\ last = Obs("init", <<>>)
  /\ run = [l \in listings |-> NoRun]

\* postEndpointFactory('/search', config)
InitEndpoint ==
  /\ listings = {"posts"}
  /\ pathname = [l \in listings |-> "/search"]
  /\ config \in [listings -> EpConfigs]
  /\ params = config
  /\ page = [l \in listings |-> 0]
  /\ estate = [l \in listings |-> InitialState]
  /\ requests = [l \in listings |-> <<>>]
  /\ thens = {}
  /\ NoObs
  /\ IdleView
  /\ NoCtor

\* A rejected request changes nothing of an endpoint (Fail only drops the
\* continuation), so for the endpoint it is a request that stays pending:
\* rejections are part of the view's specification only.
NextEndpoint ==
  \/ \E l \in listings : GetWithin(l, MaxPage, MaxFetch) /\ Get(l)
  \/ \E l \in listings, q \in EpQueries, b \in BOOLEAN :
       SetQueryWithin(b, MaxFetch) /\ SetQuery(l, q, b)
  \/ \E l \in listings : ClearQuery(l)
  \/ \E l \in listings : \E rq \in DOMAIN requests[l], h \in Headers :
       Resolve(l, rq, h)
  \/ \E c \in thens : Respond(c)

SpecEndpoint == InitEndpoint /\ [][NextEndpoint]_vars

----------------------------------------------------------------------------
(* The example: per_page = 12, and a server that reports a total of 30 *)

ExampleHeader == [hasTotal |-> TRUE, total |-> ExampleTotal]

InitExample ==
  /\ listings = {"posts"}
  /\ pathname = [l \in listings |-> "/search"]
  /\ config = [l \in listings |-> [per_page |-> Num(PerPage)]]
  /\ params = config
  /\ page = [l \in listings |-> 0]
  /\ estate = [l \in listings |-> InitialState]
  /\ requests = [l \in listings |-> <<>>]
  /\ thens = {}
  /\ NoObs
  /\ IdleView
  /\ NoCtor

NextExample ==
  \/ \E l \in listings :
       GetWithin(l, MaxExamplePage, MaxExampleFetch) /\ Get(l)
  \/ \E l \in listings : \E rq \in DOMAIN requests[l] :
       Resolve(l, rq, ExampleHeader)
  \/ \E c \in thens : Respond(c)

SpecExample == InitExample /\ [][NextExample]_vars

----------------------------------------------------------------------------
(* Claims about the request cache and the endpoint *)

\* the endpoint call of the last operation, when it made exactly one
TheCall == last.calls[1]
IsCall(fn) == last.op = fn /\ Len(last.calls) = 1

\* C1: on one request cache at most one apiFetch call is ever made per
\* request: every request in the cache was fetched from the network exactly
\* once, however many lookups there were, and the response a request has
\* resolved to is the one every later lookup of it gets (it is never replaced)
C1_OneNetworkCallPerKey ==
  [][\A l \in listings : \A k \in DOMAIN requests'[l] :
       /\ k \in DOMAIN apiCalls'[l]
       /\ apiCalls'[l][k] = 1
       /\ (k \in DOMAIN requests[l] /\ requests[l][k].status = "resolved")
            => requests'[l][k] = requests[l][k]]_vars

\* a lookup of a request that was in the cache already: no apiFetch call
C1_Witness ==
  /\ last.op \in {"get", "setQuery"}
  /\ Len(last.calls) = 1
  /\ TheCall.lookup
  /\ ~TheCall.api

\* C2: right after any setQuery call, whatever the configuration and the
\* query, no parameter of getParams() is the empty string
C2_NoEmptyStringParams ==
  IsCall("setQuery") =>
    \A k \in DOMAIN getParams(TheCall.l) :
      ~IsEmptyString(getParams(TheCall.l)[k])

\* setQuery has removed a key that the configuration gave the empty string
C2_Witness ==
  /\ IsCall("setQuery")
  /\ "s" \in DOMAIN config[TheCall.l]
  /\ IsEmptyString(config[TheCall.l]["s"])
  /\ "s" \notin DOMAIN getParams(TheCall.l)

\* C3 as claimed: right after setQuery(query) with runQuery = true,
\* getPage() is 0 and isFinished is false
C3_PageZeroAfterSetQuery ==
  (IsCall("setQuery") /\ TheCall.arg[1]) =>
    /\ getPage(TheCall.l) = 0
    /\ ~estate[TheCall.l].isFinished

\* C3, amended: right after setQuery(query) with runQuery = true, getPage()
\* is 1 (the counter was reset, and the get() call of setQuery incremented
\* it for the first page, which was requested) and isFinished is false
C3_PageOneAfterSetQuery ==
  (IsCall("setQuery") /\ TheCall.arg[1]) =>
    /\ getPage(TheCall.l) = 1
    /\ TheCall.lookup /\ TheCall.requestPage = 1
    /\ ~estate[TheCall.l].isFinished

\* setQuery(query) on an endpoint that had finished a query before
C3_Witness ==
  /\ IsCall("setQuery") /\ TheCall.arg[1]
  /\ finishedEvents[TheCall.l] > 0
  /\ getPage(TheCall.l) = 1

\* C4: a get() call increases the page counter by exactly 1 and, when the
\* endpoint is not finished, requests exactly the new page; the counter
\* increases in no step that does not run get() (setQuery with runQuery
\* runs it, from 0), and handling a response does not change it
C4_PageAdvancesByGetOnly ==
  [][\A l \in listings :
       /\ (last'.op = "get" /\ last'.calls[1].l = l) =>
            /\ page'[l] = page[l] + 1
            /\ ~estate[l].isFinished =>
                 (last'.calls[1].lookup /\ last'.calls[1].requestPage = page'[l])
       /\ page'[l] > page[l] =>
            \/ last'.op = "get" /\ last'.calls[1].l = l
            \/ last'.op = "setQuery" /\ last'.calls[1].l = l
               /\ last'.calls[1].arg[1] /\ page'[l] = 1
       /\ last'.op \in {"response", "none", "clearQuery"} =>
            page'[l] = page[l]]_vars

\* a get() call that requested the second page or a later one
C4_Witness ==
  /\ IsCall("get")
  /\ TheCall.lookup
  /\ getPage(TheCall.l) >= 2
  /\ TheCall.requestPage = getPage(TheCall.l)

\* C5: per_page = 12 and a total of 30, get() called again and again, each
\* call after the response of the one before was handled: isFinished is
\* false after the responses of pages 1 and 2 and true from the response of
\* page 3 on, and 'listing-finished' is published exactly once, whatever
\* get() calls follow
C5_FinishedAtThirdPage ==
  \A l \in listings :
    run[l].sequential =>
      /\ estate[l].isFinished <=> (run[l].handled * PerPage >= ExampleTotal)
      /\ finishedEvents[l] =
           IF run[l].handled * PerPage >= ExampleTotal THEN 1 ELSE 0
      /\ estate[l].foundPosts = IF run[l].handled > 0 THEN ExampleTotal ELSE 0

\* three responses handled, and get() called again after the third
C5_Witness ==
  \E l \in listings :
    /\ run[l].sequential
    /\ run[l].handled = 3
    /\ page[l] > 3
    /\ finishedEvents[l] = 1

\* C6: a get() call on a finished endpoint makes no cache lookup and no
\* apiFetch call, and returns undefined
C6_GetOnFinishedDoesNothing ==
  [][\A l \in listings :
       (last'.op = "get" /\ last'.calls[1].l = l /\ estate[l].isFinished) =>
         /\ last'.calls[1].ret = "undefined"
         /\ ~last'.calls[1].lookup
         /\ ~last'.calls[1].api
         /\ requests' = requests
         /\ apiCalls' = apiCalls
         /\ nLookups' = nLookups
         /\ thens' = thens]_vars

\* get() was called on a finished endpoint
C6_Witness ==
  /\ IsCall("get")
  /\ estate[TheCall.l].isFinished
  /\ TheCall.ret = "undefined"

----------------------------------------------------------------------------
(* The view of two listings, after searchViewFactory() and init() *)

\* the values typed into the search input
InputValues == {<<>>, <<"d">>, <<"d", "o">>}

\* the taxonomy toggles of the page (the elements with data-taxonomy, none
\* of class is-active): checkboxes for two slugs of one taxonomy, and
\* another control for one
TaxToggles ==
  {[taxonomy |-> "cat", slug |-> <<"a">>, listing |-> "posts",
    checkbox |-> TRUE],
   [taxonomy |-> "cat", slug |-> <<"b">>, listing |-> "posts",
    checkbox |-> TRUE],
   [taxonomy |-> "cat", slug |-> <<"a">>, listing |-> "posts",
    checkbox |-> FALSE]}

\* the responses of the server to the view's requests: they carry the
\* X-WP-TOTAL header, with one page of posts as the total (what an endpoint
\* does with a response that lacks the header is part of SpecEndpoint)
ViewHeaders == {[hasTotal |-> TRUE, total |-> PerPage]}

\* the values the configuration may give a taxonomy parameter: none, a
\* slug, a list of slugs, and lists with a slug twice or with an empty entry
TaxConfigs ==
  {<<>>} \cup
  {[cat |-> Str(v)] : v \in {<<"a">>, <<"a", ",", "b">>, <<"a", ",", "a">>,
                             <<",", "b">>}}

\* instance.listings: the example's listing, and a second one that keeps
\* the default search parameter
ViewListings ==
  [posts |-> [searchParam |-> "s", scroll |-> TRUE],
   projects |-> [searchParam |-> "search", scroll |-> FALSE]]

Init ==
  /\ listings = {"posts", "projects"}
  /\ lopts = ViewListings
  /\ root = [l \in listings |-> <<>>]
  /\ pathname = [posts |-> "/search", projects |-> "/projects"]
  /\ \E t \in TaxConfigs :
       config = [posts |-> Assign([per_page |-> Num(PerPage)], t),
                 projects |-> [per_page |-> Num(PerPage)]]
  /\ params = config
  /\ page = [l \in listings |-> 0]
  /\ estate = [l \in listings |-> InitialState]
  /\ requests = [l \in listings |-> <<>>]
  /\ thens = {}
  /\ NoObs
  /\ vstate = [loading |-> FALSE, visible |-> FALSE, foundPosts |-> 0]
  /\ input = <<>>
  /\ timer = "idle"
  /\ bursts = 0
  /\ searches = 0
  /\ setHist = <<>>
  /\ taxHist = <<>>
  /\ alls = <<>>
  /\ hidden = <<>>
  /\ inited = TRUE
  /\ scrollTimer = "idle"
  /\ NoCtor

Next ==
  \/ \E v \in InputValues : Input(v)
  \/ Search
  \/ \E t \in TaxToggles : TaxSet(t.taxonomy, t.slug, t.listing, t.checkbox)
  \/ \E l \in listings : \E rq \in DOMAIN requests[l], h \in ViewHeaders :
       Resolve(l, rq, h)
  \/ \E l \in listings : \E rq \in DOMAIN requests[l] : Reject(l, rq)
  \/ \E c \in thens : Respond(c)
  \/ \E c \in thens : Fail(c)
  \/ \E c \in thens : Deliver(c)
  \/ \E g \in DOMAIN alls : AllDone(g)

Spec == Init /\ [][Next]_vars

----------------------------------------------------------------------------
(* Claims about the search input and the taxonomy toggles *)

\* the calls of setQuery a search() makes for input value v: one for each
\* listing, in the order of the listings, with only the listing's search
\* parameter set, to v
SearchArgs(v) ==
  [i \in 1..Len(Ordered(listings)) |->
     [fn |-> "setQuery", l |-> Ordered(listings)[i],
      arg |-> <<(lopts[Ordered(listings)[i]].searchParam :> Str(v)), TRUE>>]]

CallArgs(calls) ==
  [i \in 1..Len(calls) |->
     [fn |-> calls[i].fn, l |-> calls[i].l, arg |-> calls[i].arg]]

\* C8: every burst of input events (a first event while the timer is idle,
\* and events that re-arm the running timer) gets exactly one search(), when
\* the timer runs out after its last event: the searches and the running
\* timer add up to the bursts. The search calls setQuery once for each
\* listing, with the listing's search parameter set to the value the input
\* has then, and an input event itself calls nothing of an endpoint.
C8_OneSearchPerBurst ==
  [][/\ bursts' = searches' + (IF timer' = "armed" THEN 1 ELSE 0)
     /\ searches' \in {searches, searches + 1}
     /\ searches' = searches + 1 =>
          /\ timer = "armed" /\ timer' = "idle"
          /\ input' = input
          /\ last'.op = "search"
          /\ CallArgs(last'.calls) = SearchArgs(input)
          /\ \A l \in listings :
               /\ HasParam(params'[l], lopts[l].searchParam) =>
                    params'[l][lopts[l].searchParam] = Str(input)
               /\ HasParam(params'[l], lopts[l].searchParam) <=> input # <<>>
     /\ (input' # input \/ bursts' # bursts) =>
          /\ searches' = searches
          /\ timer' = "armed"
          /\ UNCHANGED <<epVars, apiCalls, nLookups>>
    ]_vars

\* a burst of two input events, 'd' and then 'do', has been searched for
C8_Witness ==
  /\ bursts = 1 /\ searches = 1 /\ timer = "idle"
  /\ input = <<"d", "o">>
  /\ last.op = "search"
  /\ Len(last.calls) = 2
  /\ params["posts"]["s"] = Str(<<"d", "o">>)
  /\ params["projects"]["search"] = Str(<<"d", "o">>)

\* the slugs of a value of a taxonomy parameter, as a set
SlugSet(p) ==
  IF p = <<>> THEN {}
  ELSE LET parts == FilterEmpty(Split(p[1].v, Comma))
       IN  {parts[i] : i \in DOMAIN parts}

\* a value that lists each of its slugs once, with no empty entry
Canonical(p) ==
  \/ p = <<>>
  \/ LET parts == Split(p[1].v, Comma)
     IN  /\ FilterEmpty(parts) = parts
         /\ \A i, j \in DOMAIN parts : parts[i] = parts[j] => i = j

TwoToggles ==
  /\ Len(taxHist) = 2
  /\ taxHist[1].shouldToggle /\ taxHist[2].shouldToggle
  /\ taxHist[1].tax = taxHist[2].tax
  /\ taxHist[1].slug = taxHist[2].slug
  /\ taxHist[1].l = taxHist[2].l

----------------------------------------------------------------------------
(* The state container of the view, used through setState *)

\* the data given to setState: any of the fields of the view's state
StateData ==
  {Assign(Assign(a, b), c) :
     a \in {<<>>, [loading |-> TRUE], [loading |-> FALSE]},
     b \in {<<>>, [visible |-> TRUE], [visible |-> FALSE]},
     c \in {<<>>, [foundPosts |-> 0], [foundPosts |-> PerPage]}}

\* instance.setState(data)
SetState(data) ==
  /\ LET r == setState(vstate, data)
     IN  /\ vstate' = r.state
         /\ setHist' = Last2(Append(setHist,
                          [data |-> data, before |-> vstate,
                           published |-> r.published]))
  /\ last' = Obs("setState", <<>>)
  /\ UNCHANGED <<epVars, apiCalls, nLookups, finishedEvents, run>>
  /\ UNCHANGED <<root, lopts, input, timer, bursts, searches, taxHist, alls,
                 ctorVars>>
  /\ UNCHANGED pageVars

\* a view with no listing
NoListings ==
  /\ listings = {}
  /\ pathname = <<>>
  /\ config = <<>>
  /\ params = <<>>
  /\ page = <<>>
  /\ estate = <<>>
  /\ requests = <<>>
  /\ thens = {}

InitState == NoListings /\ NoObs /\ IdleView /\ NoCtor

NextState == \E data \in StateData : SetState(data)

SpecState == InitState /\ [][NextState]_vars

\* the state after call i of setHist
StateAfter(i) == IF i = Len(setHist) THEN vstate ELSE setHist[i + 1].before

\* C7: a setState call publishes 'state-set' exactly when the state merged
\* with its data differs from the state; the state is the merged state
\* afterwards, which is the state unchanged if nothing was published. Of two
\* consecutive setState({loading: true}) from loading = false the first
\* publishes and the second does not.
C7_PublishesIffChanged ==
  /\ \A i \in DOMAIN setHist :
       LET c == setHist[i]
       IN  /\ c.published <=> Assign(c.before, c.data) # c.before
           /\ StateAfter(i) = Assign(c.before, c.data)
           /\ ~c.published => StateAfter(i) = c.before
  /\ ( /\ Len(setHist) = 2
       /\ setHist[1].data = [loading |-> TRUE]
       /\ setHist[2].data = [loading |-> TRUE]
       /\ ~setHist[1].before.loading )
     => setHist[1].published /\ ~setHist[2].published

\* setState({loading: true}) twice from loading = false: published once
C7_Witness ==
  /\ Len(setHist) = 2
  /\ setHist[1].data = [loading |-> TRUE]
  /\ setHist[2].data = [loading |-> TRUE]
  /\ ~setHist[1].before.loading
  /\ setHist[1].published /\ ~setHist[2].published
  /\ vstate.loading

----------------------------------------------------------------------------
(* The construction of the view: searchViewFactory and createListing *)

\* the listing defaults createListing reads
listingDefaults == [searchParam |-> "search"]

\* the configurations of a listing: each of rootEl, template, pathname and
\* searchParam is left out, or given; a template may be something that is
\* not a function, and pathname and searchParam may be the empty string
ListingConfigs ==
  {Assign(Assign(Assign(a, b), c), d) :
     a \in {<<>>, [rootEl |-> "element"]},
     b \in {<<>>, [template |-> "string"], [template |-> "function"]},
     c \in {<<>>, [pathname |-> ""], [pathname |-> "/search"]},
     d \in {<<>>, [searchParam |-> ""], [searchParam |-> "s"]}}

\* the listings option: a configuration for some of the names
ListingOptions ==
  UNION {[names -> ListingConfigs] : names \in SUBSET {"posts", "projects"}}

\* createListing(name, listingConfig): what the call ends with. The length
\* of pathname is read whether or not there is a pathname
createListing(name, listingConfig) ==
  LET listingOptions == Assign(listingDefaults, listingConfig)
      given(k) == k \in DOMAIN listingOptions
  IN  IF ~given("rootEl")
        THEN [kind |-> "warning", about |-> "rootEl"]
      ELSE IF ~given("template") \/ listingOptions.template # "function"
        THEN [kind |-> "warning", about |-> "template"]
      ELSE IF ~given("pathname")
        THEN [kind |-> "TypeError", about |-> "pathname"]
      ELSE IF listingOptions.pathname = ""
        THEN [kind |-> "warning", about |-> "pathname"]
      ELSE IF listingOptions.searchParam = ""
        THEN [kind |-> "warning", about |-> "searchParam"]
      ELSE [kind |-> "listing", about |-> name]

\* the next call of mapObject(instance.options.listings, createListing); an
\* exception ends the construction
CreateListing ==
  /\ todo # <<>>
  /\ ~thrown
  /\ LET name == Head(todo)
         r == createListing(name, options[name])
         listingOptions == Assign(listingDefaults, options[name])
     IN  /\ thrown' = (r.kind = "TypeError")
         /\ todo' = IF r.kind = "TypeError" THEN todo ELSE Tail(todo)
         /\ warnings' = IF r.kind = "warning" THEN warnings \cup {name}
                        ELSE warnings
         /\ last' = Obs("createListing", <<r>>)
         /\ IF r.kind = "listing"
              THEN /\ listings' = listings \cup {name}
                   /\ lopts' = Assign(lopts, name :>
                                 [searchParam |-> listingOptions.searchParam,
                                  scroll |-> FALSE])
                   /\ pathname' = Assign(pathname,
                                         name :> listingOptions.pathname)
                   /\ config' = Assign(config, name :> <<>>)
                   /\ params' = Assign(params, name :> <<>>)
                   /\ page' = Assign(page, name :> 0)
                   /\ estate' = Assign(estate, name :> InitialState)
                   /\ requests' = Assign(requests, name :> <<>>)
                   /\ apiCalls' = Assign(apiCalls, name :> <<>>)
                   /\ finishedEvents' = Assign(finishedEvents, name :> 0)
                   /\ run' = Assign(run, name :> NoRun)
                   /\ root' = Assign(root, name :> <<>>)
              ELSE UNCHANGED <<listings, lopts, pathname, config, params,
                               page, estate, requests, apiCalls,
                               finishedEvents, run, root>>
  /\ UNCHANGED <<thens, nLookups, options>>
  /\ UNCHANGED <<vstate, input, timer, bursts, searches, setHist, taxHist,
                 alls>>
  /\ UNCHANGED pageVars

\* searchViewFactory(el, config), before its mapObject over the listings
InitCreate ==
  /\ NoListings
  /\ NoObs
  /\ IdleView
  /\ options \in ListingOptions
  /\ todo = Ordered(DOMAIN options)
  /\ warnings = {}
  /\ thrown = FALSE

NextCreate == CreateListing

SpecCreate == InitCreate /\ [][NextCreate]_vars

\* the listing configuration lacks something that is required
Incomplete(listingConfig) ==
  LET o == Assign(listingDefaults, listingConfig)
  IN  \/ "rootEl" \notin DOMAIN o
      \/ "template" \notin DOMAIN o
      \/ o.template # "function"
      \/ "pathname" \notin DOMAIN o
      \/ o.pathname = ""
      \/ o.searchParam = ""

\* the names createListing has been called with
Called == {n \in DOMAIN options : \A i \in DOMAIN todo : todo[i] # n}

\* what createListing does short of throwing: a name with an incomplete
\* configuration is warned about and gets no listing, and any other gets
\* one listing, with one endpoint
CreateListingWarnsOrAdds ==
  /\ listings = {n \in Called : ~Incomplete(options[n])}
  /\ warnings = {n \in Called : Incomplete(options[n])}
  /\ DOMAIN lopts = listings
  /\ DOMAIN params = listings
  /\ DOMAIN requests = listings

\* C10: createListing never throws, an incomplete configuration gets a
\* warning and no listing, a complete one gets one listing with one
\* endpoint, and the construction goes on to the remaining listings.
C10_CreateListingNeverThrows ==
  /\ ~thrown
  /\ CreateListingWarnsOrAdds

\* createListing is called for 'posts' with a rootEl and a template function
\* but no pathname: the construction has ended with a TypeError, before
\* anything was done for 'projects', whose configuration is complete
C10_Witness ==
  /\ thrown
  /\ todo = <<"posts", "projects">>
  /\ "pathname" \notin DOMAIN options["posts"]
  /\ ~Incomplete(options["projects"])
  /\ listings = {}
  /\ warnings = {}

----------------------------------------------------------------------------
(* Claims about the view's loading flag *)

\* the continuations of search() runs whose request has not been answered
SearchesInFlight(th, rq) ==
  {c \in th : c.caller.by = "search" /\ rq[c.l][c.request].status = "pending"}

\* C11: while a request of a search() is in flight, no step other than an
\* input event sets the view's loading flag from true to false: the state
\* update of setResultsVariables waits for the requests of all the listings
C11_LoadingUntilAllResolved ==
  [][(/\ last'.op # "input"
      /\ vstate.loading
      /\ SearchesInFlight(thens', requests') # {})
       => vstate'.loading]_vars

\* the field is not empty and loading is false, while a request of the
\* search is in flight: the then-callback of another listing's
\* setListingQuery has run setResultsVariables
C11_Witness ==
  /\ input # <<>>
  /\ vstate.visible
  /\ ~vstate.loading
  /\ searches = 1
  /\ taxHist = <<>>
  /\ SearchesInFlight(thens, requests) # {}

----------------------------------------------------------------------------
(* Two endpoints of one page that are given the same pathname and the same *)
(* configuration: each is built with a requestMixin() of its own          *)

InitShared ==
  /\ listings = {"posts", "projects"}
  /\ pathname = [l \in listings |-> "/search"]
  /\ config = [l \in listings |-> [per_page |-> Num(PerPage)]]
  /\ params = config
  /\ page = [l \in listings |-> 0]
  /\ estate = [l \in listings |-> InitialState]
  /\ requests = [l \in listings |-> <<>>]
  /\ thens = {}
  /\ NoObs
  /\ IdleView
  /\ NoCtor

NextShared ==
  \/ \E l \in listings : GetWithin(l, MaxPage, MaxFetch) /\ Get(l)
  \/ \E l \in listings : \E rq \in DOMAIN requests[l], h \in Headers :
       Resolve(l, rq, h)
  \/ \E c \in thens : Respond(c)

SpecShared == InitShared /\ [][NextShared]_vars

\* the apiFetch calls made for request k, by all the endpoints of the page
RECURSIVE NetworkCalls(_, _)
NetworkCalls(k, order) ==
  IF order = <<>> THEN 0
  ELSE (IF k \in DOMAIN apiCalls[Head(order)]
          THEN apiCalls[Head(order)][k] ELSE 0)
       + NetworkCalls(k, Tail(order))

RequestKeys == UNION {DOMAIN apiCalls[l] : l \in listings}

\* C12: over all the endpoints of the page, no request (pathname, parameters
\* and page) is fetched from the network more than once
C12_OneNetworkCallPerKeyOnPage ==
  \A k \in RequestKeys : NetworkCalls(k, Ordered(listings)) <= 1

\* both endpoints have asked for page 1 of the same query, and each has made
\* a network call of its own for it
C12_Witness ==
  \E k \in RequestKeys :
    /\ k.page = 1
    /\ k \in DOMAIN apiCalls["posts"] /\ apiCalls["posts"][k] = 1
    /\ k \in DOMAIN apiCalls["projects"] /\ apiCalls["projects"][k] = 1

----------------------------------------------------------------------------
(* Claims about search() and the input handler *)

\* C13: a search() that runs while the input is empty calls setQuery on no
\* listing, makes no cache lookup and no network request, and leaves no
\* promise pending
C13_EmptySearchMakesNoQuery ==
  [][(searches' = searches + 1 /\ input = <<>>) =>
       /\ last'.calls = <<>>
       /\ nLookups' = nLookups
       /\ apiCalls' = apiCalls
       /\ thens' = thens]_vars

\* search() has run on an empty input and has called setQuery for each
\* listing, with network requests
C13_Witness ==
  /\ last.op = "search"
  /\ input = <<>>
  /\ Len(last.calls) = 2
  /\ \A i \in 1..2 : last.calls[i].fn = "setQuery" /\ last.calls[i].api
  /\ Cardinality(thens) = 2

\* C14: an input event sets loading and visible both to whether the value of
\* the input is non-empty, in the step of the event itself, which calls
\* nothing of an endpoint and starts no request, and whatever requests are
\* in flight
C14_InputSetsFlags ==
  [][last'.op = "input" =>
       /\ vstate'.loading = (input' # <<>>)
       /\ vstate'.visible = (input' # <<>>)
       /\ vstate'.foundPosts = vstate.foundPosts
       /\ UNCHANGED <<epVars, apiCalls, nLookups>>]_vars

\* an input event has emptied the field while a request of a search was in
\* flight: loading and visible are false
C14_Witness ==
  /\ last.op = "input"
  /\ input = <<>>
  /\ ~vstate.loading /\ ~vstate.visible
  /\ SearchesInFlight(thens, requests) # {}

----------------------------------------------------------------------------
(* Claims about responses, clearQuery and setQuery without a run *)

\* the continuations whose then-callback of get() runs in this step
Handled == {c \in thens \ thens' : c.phase = "fetch"}

\* no response endpoint l has got so far carries the X-WP-TOTAL header
NoTotalSoFar(rq) == \A k \in DOMAIN rq : ~rq[k].hasTotal

\* C15: handling a response that lacks the X-WP-TOTAL header leaves the
\* state of the endpoint as it is and publishes no 'listing-finished'; an
\* endpoint that has got no response with the header is not finished, has
\* published no 'listing-finished' and has found no posts, whatever get()
\* and setQuery() calls were made
C15_NoHeaderNoStateChange ==
  [][/\ \A c \in Handled :
          (last'.op = "response" /\ ~requests[c.l][c.request].hasTotal) =>
            /\ estate' = estate
            /\ finishedEvents' = finishedEvents
            /\ ~last'.published /\ ~last'.finished
     /\ \A l \in listings :
          NoTotalSoFar(requests'[l]) =>
            /\ ~estate'[l].isFinished
            /\ finishedEvents'[l] = 0
            /\ estate'[l].foundPosts = 0]_vars

\* the responses of pages 1 and 2 had no header and have been handled
C15_Witness ==
  /\ last.op = "response"
  /\ page[last.l] = 2
  /\ NoTotalSoFar(requests[last.l])
  /\ Cardinality({k \in DOMAIN requests[last.l] :
                    requests[last.l][k].status = "resolved"}) = 2
  /\ thens = {}
  /\ ~estate[last.l].isFinished

\* C16: clearQuery() makes the parameters exactly the configuration the
\* endpoint was built with, and changes neither the page counter nor the
\* state (isFinished, foundPosts) nor the cache; the configuration is the
\* same after every step
C16_ClearQueryRestoresConfig ==
  [][/\ config' = config
     /\ last'.op = "clearQuery" =>
          /\ \E l \in listings : params[l] # config[l]
          /\ params' = config
          /\ page' = page
          /\ estate' = estate
          /\ requests' = requests
          /\ thens' = thens]_vars

\* clearQuery() on an endpoint that has a page and a total: a key of the
\* configuration that setQuery had deleted (its value is the empty string)
\* is back
C16_Witness ==
  /\ last.op = "clearQuery"
  /\ params = config
  /\ \E l \in listings :
       /\ HasParam(params[l], "s") /\ IsEmptyString(params[l]["s"])
       /\ page[l] > 0
       /\ estate[l].foundPosts > 0

\* the continuations dropped in this step because their request was rejected
Rejected ==
  {c \in thens \ thens' : requests[c.l][c.request].status = "rejected"}

\* C17: the rejection of a request of setListingQuery changes nothing of the
\* view's state, and the loading flag goes from true to false only by an
\* input event that empties the field, by the then-callback of a request
\* that was answered, or by the then-callback of a Promise.all whose
\* requests were all answered: after a rejection, and with no other
\* operation or response, loading stays true
C17_RejectionKeepsLoading ==
  [][/\ Rejected # {} => vstate' = vstate
     /\ (vstate.loading /\ ~vstate'.loading) =>
          \/ last'.op = "input" /\ input' = <<>>
          \/ \E c \in thens \ thens' :
               /\ c.phase = "json"
               /\ requests[c.l][c.request].status = "resolved"
          \/ \E g \in DOMAIN alls \ DOMAIN alls' :
               /\ alls[g].waiting = {}
               /\ Rejected = {}]_vars

\* the requests of a search were rejected and nothing is pending: loading
\* is true, and no then-callback is left that would set it to false
C17_Witness ==
  /\ vstate.loading
  /\ searches = 1
  /\ timer = "idle"
  /\ thens = {}
  /\ alls = <<>>
  /\ \A l \in listings : \A k \in DOMAIN requests[l] :
       requests[l][k].status = "rejected"
  /\ \E l \in listings : requests[l] # <<>>

\* C18: setQuery(query, false) makes no cache lookup and no network call and
\* leaves no promise pending; afterwards the page counter is 0, isFinished
\* is false and foundPosts is what it was; the parameters are the old ones
\* merged with the query, without the keys whose value is the empty string;
\* what it returns is a resolved promise
C18_SetQueryWithoutRun ==
  [][\A l \in listings :
       (/\ last'.op = "setQuery"
        /\ last'.calls[1].l = l
        /\ ~last'.calls[1].arg[1]) =>
         /\ page'[l] = 0
         /\ ~estate'[l].isFinished
         /\ estate'[l].foundPosts = estate[l].foundPosts
         /\ ~last'.calls[1].lookup
         /\ ~last'.calls[1].api
         /\ last'.calls[1].ret = "resolved"
         /\ requests' = requests
         /\ apiCalls' = apiCalls
         /\ nLookups' = nLookups
         /\ thens' = thens
         /\ \E q \in EpQueries :
              params'[l] = [k \in {x \in DOMAIN params[l] \cup DOMAIN q :
                                     ~IsEmptyString(Assign(params[l], q)[x])}
                              |-> Assign(params[l], q)[k]]]_vars

\* setQuery({ s: 'd' }, false) on an endpoint that was finished at page 1
C18_Witness ==
  /\ IsCall("setQuery")
  /\ ~TheCall.arg[1]
  /\ getPage(TheCall.l) = 0
  /\ ~estate[TheCall.l].isFinished
  /\ finishedEvents[TheCall.l] = 1
  /\ HasParam(params[TheCall.l], "s")
  /\ thens = {}

----------------------------------------------------------------------------
(* The example's listing with its search input and its load-more button *)

InitLoad ==
  /\ listings = {"posts"}
  /\ lopts = [posts |-> ViewListings.posts]
  /\ root = [l \in listings |-> <<>>]
  /\ pathname = [posts |-> "/search"]
  /\ config = [posts |-> [per_page |-> Num(PerPage)]]
  /\ params = config
  /\ page = [l \in listings |-> 0]
  /\ estate = [l \in listings |-> InitialState]
  /\ requests = [l \in listings |-> <<>>]
  /\ thens = {}
  /\ NoObs
  /\ vstate = [loading |-> FALSE, visible |-> FALSE, foundPosts |-> 0]
  /\ input = <<>>
  /\ timer = "idle"
  /\ bursts = 0
  /\ searches = 0
  /\ setHist = <<>>
  /\ taxHist = <<>>
  /\ alls = <<>>
  /\ hidden = [l \in listings |-> FALSE]
  /\ inited = TRUE
  /\ scrollTimer = "idle"
  /\ NoCtor

NextLoad ==
  \/ \E v \in InputValues : Input(v)
  \/ Search
  \/ \E l \in listings : GetWithin(l, MaxLoadPage, MaxLoadFetch) /\ LoadMore(l)
  \/ \E l \in listings : \E rq \in DOMAIN requests[l] :
       Resolve(l, rq, ExampleHeader)
  \/ \E c \in thens : Respond(c)
  \/ \E c \in thens : Deliver(c)
  \/ \E c \in thens : Loaded(c)
  \/ \E g \in DOMAIN alls : AllDone(g)

SpecLoad == InitLoad /\ [][NextLoad]_vars

\* the continuations whose response this step renders with populate()
Rendered == {c \in thens \ thens' : c.phase = "json"}

\* C19: populate() clears the listing's root exactly when the response being
\* rendered is page 1 of its query: a response for page 1 replaces what was
\* rendered before, and a response for a later page is appended to it
C19_ClearsIffResponseIsPageOne ==
  [][\A c \in Rendered :
       root'[c.l] = IF c.request.page = 1
                      THEN <<c.request>>
                      ELSE Append(root[c.l], c.request)]_vars

\* C19: the response for page 1 of a search was rendered after a load-more
\* click had advanced the page counter, behind the items of the query before
C19_Witness ==
  \E l \in listings :
    /\ Len(root[l]) = 2
    /\ root[l][2].page = 1
    /\ root[l][1].query # root[l][2].query

----------------------------------------------------------------------------
(* Claims about the finished flag and the responses in flight *)

\* the pages of the example's query: 1..ceil(total / per_page)
ExamplePages == 1..((ExampleTotal + PerPage - 1) \div PerPage)

\* the response of page p of endpoint l's current query has been handled:
\* the request was made and resolved, and no then-callback of get() is left
\* to run for it
PageHandled(l, p) ==
  LET request == Request(l, params[l], p)
  IN  /\ request \in DOMAIN requests[l]
      /\ requests[l][request].status = "resolved"
      /\ ~\E c \in thens :
            c.l = l /\ c.request = request /\ c.phase = "fetch"

\* C20: whenever an endpoint's isFinished is true, the responses of all the
\* pages 1..ceil(total / per_page) of its current query have been handled
C20_FinishedOnlyAfterAllPages ==
  \A l \in listings :
    estate[l].isFinished => \A p \in ExamplePages : PageHandled(l, p)

\* C20: the endpoint is finished while a get() for a page of its query is
\* still in flight
C20_Witness ==
  \E l \in listings :
    /\ estate[l].isFinished
    /\ \E c \in thens :
         /\ c.l = l
         /\ c.phase = "fetch"
         /\ c.request.query = params[l]
         /\ c.request.page \in ExamplePages

----------------------------------------------------------------------------
(* The example's listing and its search input, with a server whose total
   depends on the query *)

\* the totals the server reports: the example's, and one page of posts
StaleHeaders == {ExampleHeader, [hasTotal |-> TRUE, total |-> PerPage]}

NextStale ==
  \/ \E v \in InputValues : Input(v)
  \/ Search
  \/ \E l \in listings : \E rq \in DOMAIN requests[l], h \in StaleHeaders :
       Resolve(l, rq, h)
  \/ \E c \in thens : Respond(c)
  \/ \E c \in thens : Deliver(c)
  \/ \E g \in DOMAIN alls : AllDone(g)

SpecStale == InitLoad /\ [][NextStale]_vars

\* the request of page 1 of endpoint l's current parameters
CurrentRequest(l) == Request(l, params[l], 1)

\* C21: a search() that supersedes a query in flight cancels nothing: every
\* then-callback that waits on a response still waits after it, and every
\* entry of the requests cache is kept as it was
C21_SupersededNotCancelled ==
  [][last'.op = "search" =>
       /\ thens \subseteq thens'
       /\ \A l \in listings : \A rq \in DOMAIN requests[l] :
            rq \in DOMAIN requests'[l] /\ requests'[l][rq] = requests[l][rq]]_vars

\* C21: nothing is in flight, and the items rendered in the listing and the
\* foundPosts of the endpoint and of the view are those of a query other
\* than the endpoint's current parameters, whose own response was handled
\* and reported another total
C21_Witness ==
  \E l \in listings :
    /\ thens = {}
    /\ alls = <<>>
    /\ \A rq \in DOMAIN requests[l] : requests[l][rq].status = "resolved"
    /\ CurrentRequest(l) \in DOMAIN requests[l]
    /\ Len(root[l]) = 1
    /\ root[l][1].query # params[l]
    /\ estate[l].foundPosts = requests[l][root[l][1]].total
    /\ estate[l].foundPosts # requests[l][CurrentRequest(l)].total
    /\ vstate.foundPosts = estate[l].foundPosts

----------------------------------------------------------------------------
(* Claims about the page counter of a finished endpoint *)

\* C22: a get() call on a finished endpoint leaves the page counter
\* unchanged: only a get() that issues a fetch increments it
C22_GetOnFinishedKeepsPage ==
  [][\A l \in listings :
       (last'.op = "get" /\ last'.calls[1].l = l /\ estate[l].isFinished) =>
         page'[l] = page[l]]_vars

\* C22: get() was called on a finished endpoint, and getPage() is more than
\* the number of pages of the current query that were requested
C22_Witness ==
  /\ IsCall("get")
  /\ TheCall.ret = "undefined"
  /\ estate[TheCall.l].isFinished
  /\ getPage(TheCall.l) >
       Cardinality({rq \in DOMAIN requests[TheCall.l] :
                      rq.query = params[TheCall.l]})

----------------------------------------------------------------------------
(* The view of two listings and its scroll wrapper: posts loads on scroll,
   projects does not *)

InitScroll ==
  /\ listings = {"posts", "projects"}
  /\ lopts = ViewListings
  /\ root = [l \in listings |-> <<>>]
  /\ pathname = [posts |-> "/search", projects |-> "/projects"]
  /\ config = [l \in listings |-> [per_page |-> Num(PerPage)]]
  /\ params = config
  /\ page = [l \in listings |-> 0]
  /\ estate = [l \in listings |-> InitialState]
  /\ requests = [l \in listings |-> <<>>]
  /\ thens = {}
  /\ NoObs
  /\ vstate = [loading |-> FALSE, visible |-> FALSE, foundPosts |-> 0]
  /\ input = <<>>
  /\ timer = "idle"
  /\ bursts = 0
  /\ searches = 0
  /\ setHist = <<>>
  /\ taxHist = <<>>
  /\ alls = <<>>
  /\ hidden = <<>>
  /\ inited = TRUE
  /\ scrollTimer = "idle"
  /\ NoCtor

NextScroll ==
  \/ \E v \in InputValues : Input(v)
  \/ \E b \in BOOLEAN :
       ScrollWithin(MaxScrollPage, MaxScrollFetch) /\ Scroll(b)
  \/ ScrollWindowEnds
  \/ \E l \in listings : \E rq \in DOMAIN requests[l], h \in StaleHeaders :
       Resolve(l, rq, h)
  \/ \E c \in thens : Respond(c)
  \/ \E c \in thens : ScrollLoaded(c)

SpecScroll == InitScroll /\ [][NextScroll]_vars

\* C23: a scroll event calls get() only on listings that have scroll and
\* whose endpoint is not finished at that moment, and only when the view is
\* visible and the scroll wrapper is scrolled to the bottom; each of these
\* calls issues a fetch, and the page counter and the cache of no other
\* endpoint change
C23_ScrollGetsOnlyWhenDue ==
  [][last'.op = "scroll" =>
     /\ \A i \in DOMAIN last'.calls :
         LET call == last'.calls[i]
         IN  /\ call.fn = "get"
             /\ ViewListings[call.l].scroll
             /\ ~estate[call.l].isFinished
             /\ vstate.visible
             /\ last'.bottom
             /\ call.lookup
     /\ \A l \in listings :
          (page'[l] # page[l] \/ requests'[l] # requests[l]) =>
            /\ ViewListings[l].scroll
            /\ ~estate[l].isFinished
            /\ vstate.visible
            /\ last'.bottom]_vars

\* C23: a scroll event at the bottom of the visible view called get() on
\* posts and not on projects
C23_Witness ==
  /\ last.op = "scroll"
  /\ last.visible /\ last.bottom
  /\ Len(last.calls) = 1
  /\ last.calls[1].l = "posts"
  /\ last.calls[1].lookup

----------------------------------------------------------------------------
(* The example's listing and its load-more button, from the return of
   searchViewFactory() on: the listing may be built with parseURL, and
   init() is a call of its own *)

\* what extractURLParameters() gives the setQuery() of a parseURL listing
URLQueries == {<<>>, [s |-> Str(<<"d">>)]}

InitBuilt ==
  /\ listings = {"posts"}
  /\ lopts = [posts |-> ViewListings.posts]
  /\ root = [l \in listings |-> <<>>]
  /\ pathname = [posts |-> "/search"]
  /\ config = [posts |-> [per_page |-> Num(PerPage)]]
  /\ \E parseURL \in BOOLEAN, url \in URLQueries :
       LET l == "posts"
           r == setQuery(l, url, TRUE, config[l], InitialState, <<>>)
       IN  IF parseURL
             THEN /\ params = [posts |-> r.params]
                  /\ page = [posts |-> r.page]
                  /\ estate = [posts |-> r.state]
                  /\ requests = [posts |-> r.requests]
                  /\ thens = {Then(1, l, r.request, Api)}
                  /\ nLookups = 1
                  /\ apiCalls = [posts |-> (r.request :> 1)]
             ELSE /\ params = config
                  /\ page = [posts |-> 0]
                  /\ estate = [posts |-> InitialState]
                  /\ requests = [posts |-> <<>>]
                  /\ thens = {}
                  /\ nLookups = 0
                  /\ apiCalls = [posts |-> <<>>]
  /\ finishedEvents = [l \in listings |-> 0]
  /\ last = Obs("init", <<>>)
  /\ run = [l \in listings |-> Broken]
  /\ vstate = [loading |-> FALSE, visible |-> FALSE, foundPosts |-> 0]
  /\ input = <<>>
  /\ timer = "idle"
  /\ bursts = 0
  /\ searches = 0
  /\ setHist = <<>>
  /\ taxHist = <<>>
  /\ alls = <<>>
  /\ hidden = [l \in listings |-> FALSE]
  /\ inited = FALSE
  /\ scrollTimer = "idle"
  /\ NoCtor

NextBuilt ==
  \/ init
  \/ \E v \in InputValues : Input(v)
  \/ Search
  \/ \E l \in listings : GetWithin(l, MaxLoadPage, MaxLoadFetch) /\ LoadMore(l)
  \/ \E l \in listings : \E rq \in DOMAIN requests[l], h \in StaleHeaders :
       Resolve(l, rq, h)
  \/ \E c \in thens : Respond(c)
  \/ \E c \in thens : Deliver(c)
  \/ \E c \in thens : Loaded(c)
  \/ \E g \in DOMAIN alls : AllDone(g)

SpecBuilt == InitBuilt /\ [][NextBuilt]_vars

\* C24: once init() has run, a load-more button has is-hidden if and only
\* if the endpoint of its listing has isFinished = true
C24_HiddenIffFinished ==
  inited => \A l \in DOMAIN hidden : hidden[l] = estate[l].isFinished

\* C24: init() has run, the endpoint of a listing is finished, and its
\* load-more button is not hidden
C24_Witness ==
  /\ inited
  /\ \E l \in DOMAIN hidden : estate[l].isFinished /\ ~hidden[l]

----------------------------------------------------------------------------
(* Claims about a 'tax-set' event that changes nothing, and about the
   end of a search *)

\* C25: a 'tax-set' event of a control that is not a checkbox, for the slug
\* that is already the only active one of its taxonomy, is a no-op: no
\* setQuery call and no request, the endpoints' page, parameters, state and
\* cache are unchanged, and so is the view's state (loading is not set)
C25_SameTaxQueryIsNoOp ==
  [][( /\ last'.op = "tax-set"
       /\ ~last'.event.shouldToggle
       /\ last'.event.before = <<Str(last'.event.slug)>> )
     => /\ last'.calls = <<>>
        /\ UNCHANGED <<epVars, apiCalls, nLookups, vstate>>]_vars

\* C25: the control for slug a was used while cat = a, and the view was
\* not loading
C25_Witness ==
  /\ last.op = "tax-set"
  /\ last.calls = <<>>
  /\ ~last.event.shouldToggle
  /\ last.event.before = <<Str(<<"a">>)>>
  /\ ParamNow("posts", "cat") = <<Str(<<"a">>)>>
  /\ ~vstate.loading

\* the Promise.all of a search() run resolves in this step: its
\* then-callback runs
SearchResolves ==
  /\ DOMAIN alls' # DOMAIN alls
  /\ searches' = searches
  /\ thens' = thens

\* C26: when the Promise.all of a search() resolves, the view's state has
\* loading = false and foundPosts equal to the sum of state.foundPosts over
\* the endpoints of all the listings
C26_SearchEndsWithTotal ==
  [][SearchResolves =>
       /\ ~vstate'.loading
       /\ vstate'.foundPosts = SumFound(ListingOrder, estate')]_vars

\* C26: the only search() has resolved, both listings reported their total,
\* and the view shows the sum of the two
C26_Witness ==
  /\ searches = 1
  /\ alls = <<>>
  /\ thens = {}
  /\ \A l \in listings : estate[l].foundPosts = PerPage
  /\ vstate.foundPosts = 2 * PerPage
  /\ ~vstate.loading

----------------------------------------------------------------------------
(* The example's listing with its load-more button, where every request is
   answered and every callback that can run does run *)

NextClicks ==
  \/ \E l \in listings : GetWithin(l, MaxLoadPage, MaxLoadFetch) /\ LoadMore(l)
  \/ \E l \in listings : \E rq \in DOMAIN requests[l], h \in StaleHeaders :
       Resolve(l, rq, h)
  \/ \E c \in thens : Respond(c)
  \/ \E c \in thens : Loaded(c)

\* the network answers every request, and the event loop runs every
\* then-callback whose promise is settled; the user's clicks need not happen
FairClicks ==
  /\ WF_vars(\E l \in listings :
               \E rq \in DOMAIN requests[l], h \in StaleHeaders :
                 Resolve(l, rq, h))
  /\ WF_vars(\E c \in thens : Respond(c))
  /\ WF_vars(\E c \in thens : Loaded(c))

SpecClicksFair == InitLoad /\ [][NextClicks]_vars /\ FairClicks

\* C27: every load-more click that leaves the view's loading flag true is
\* eventually followed by loading = false
C27_LoadingEventuallyFalse ==
  (last.op = "load-more" /\ vstate.loading) ~> ~vstate.loading

\* C27: the load-more button was clicked for a finished endpoint: loading is
\* true, get() returned undefined, and nothing is left to run
C27_Witness ==
  /\ IsCall("load-more")
  /\ TheCall.ret = "undefined"
  /\ vstate.loading
  /\ thens = {}
  /\ \A l \in listings : \A rq \in DOMAIN requests[l] :
       requests[l][rq].status = "resolved"

----------------------------------------------------------------------------
(* One endpoint whose network calls may fail, and whose query is run again *)

\* the queries given to setQuery: none (the same query is run again), and
\* a search
RetryQueries == {<<>>, [s |-> Str(<<"d">>)]}

NextRetry ==
  \/ \E l \in listings : GetWithin(l, MaxPage, MaxFetch) /\ Get(l)
  \/ \E l \in listings, q \in RetryQueries :
       SetQueryWithin(TRUE, MaxFetch) /\ SetQuery(l, q, TRUE)
  \/ \E l \in listings : \E rq \in DOMAIN requests[l] :
       Resolve(l, rq, ExampleHeader)
  \/ \E l \in listings : \E rq \in DOMAIN requests[l] : Reject(l, rq)
  \/ \E c \in thens : Respond(c)
  \/ \E c \in thens : Fail(c)

SpecRetry == InitExample /\ [][NextRetry]_vars

\* C28: the cache entry of a request whose network call was rejected is
\* never evicted or replaced: it stays rejected, no later step makes
\* another network call for its key, and a then-callback that waits on it is
\* never run with a response
C28_RejectedEntryIsKept ==
  [][\A l \in listings : \A rq \in DOMAIN requests[l] :
       requests[l][rq].status = "rejected" =>
         /\ rq \in DOMAIN requests'[l]
         /\ requests'[l][rq] = requests[l][rq]
         /\ apiCalls'[l][rq] = 1
         /\ \A c \in thens \ thens' :
              (c.l = l /\ c.request = rq) => last'.op # "response"]_vars

\* C28: setQuery() ran the query again whose request had been rejected: the
\* cache was looked up, no network call was made, and the entry is rejected
C28_Witness ==
  /\ IsCall("setQuery")
  /\ TheCall.lookup
  /\ ~TheCall.api
  /\ requests[TheCall.l][Request(TheCall.l, params[TheCall.l], 1)].status
       = "rejected"

====
